---------------------------- MODULE Spec2Model ----------------------------
(***************************************************************************)
(* A model of the GitHub event pipeline of Studio-Guidato-Interno:         *)
(*   data_collection.clean_data            (the event normalizer)          *)
(*   process_mining.extract_dfg_metrics    (the process model extractor)   *)
(*   process_mining.load_*_repositories    (the repository selector)       *)
(*   process_mining.generate_process_models_and_features and main          *)
(*                                          (log builder and accumulator)  *)
(* A DataFrame is a record [columns, rows]; a row is [index, v] where v    *)
(* maps each column name to the cell.  A missing cell (NaN, NaT, None) of  *)
(* a numeric column is the empty tuple Null and a present one is <<x>>.    *)
(***************************************************************************)
EXTENDS Integers, Sequences, FiniteSets, TLC

VARIABLES
    pc,                   \* position of the (single) run or function call
    df,                   \* clean_data: the DataFrame passed in
    out,                  \* clean_data: the DataFrame returned
    log,                  \* extract_dfg_metrics: the case's activity sequence
    metrics,              \* extract_dfg_metrics: the dictionary returned
    cleaned_csv,          \* main: the tables under data/github_cleaned_csv
    trending_file,        \* main: data/trending/trending.csv
    data,                 \* main: the corpus load_cleaned_csv returned
    repo_list_virale,     \* main: what load_trending_repositories returned
    repo_list_non_virale, \* main: what load_non_trending_repositories returned
    next_repo,            \* generate_...: position in viral + non viral list
    df_features,          \* generate_...: the feature rows collected so far
    saved_dfg,            \* generate_...: cases whose DFG image was saved
    render_failed,        \* generate_...: cases whose DFG rendering raised
    features_file,        \* data/process_model_features.csv
    exit_status,          \* the status the process ended with
    run_pc,               \* accumulator: position of each pipeline run
    run_features,         \* accumulator: df_features of each run
    run_existing,         \* accumulator: df_existing each run read
    started,              \* accumulator: runs in the order they began
    overlap               \* accumulator: some run began while another ran

vars == <<pc, df, out, log, metrics, cleaned_csv, trending_file, data,
          repo_list_virale, repo_list_non_virale, next_repo, df_features,
          saved_dfg, render_failed, features_file, exit_status, run_pc,
          run_features, run_existing, started, overlap>>

cleanVars == <<df, out>>
dfgVars == <<log, metrics>>
mainVars == <<cleaned_csv, trending_file, data, repo_list_virale,
              repo_list_non_virale, next_repo, df_features, saved_dfg,
              render_failed, exit_status>>
accVars == <<run_pc, run_features, run_existing, started, overlap>>

\* The value of a variable the specification at hand does not use.
Unused == <<>>

NoClean == df = Unused /\ out = Unused
NoDfg == log = Unused /\ metrics = Unused
NoMain ==
    /\ cleaned_csv = Unused /\ trending_file = Unused /\ data = Unused
    /\ repo_list_virale = Unused /\ repo_list_non_virale = Unused
    /\ next_repo = Unused /\ df_features = Unused /\ saved_dfg = Unused
    /\ render_failed = Unused /\ exit_status = Unused
NoAcc ==
    /\ run_pc = Unused /\ run_features = Unused /\ run_existing = Unused
    /\ started = Unused /\ overlap = Unused

\* A missing cell: NaN, NaT or None.
Null == <<>>

\* The sequences over S of length at most n.
SeqsUpTo(S, n) == UNION {[1..k -> S] : k \in 0..n}

\* The largest element of a non-empty set of integers.
Max(S) == CHOOSE x \in S : \A y \in S : y <= x

(***************************************************************************)
(* data_collection.clean_data                                              *)
(***************************************************************************)

\* Rows of one table: at most this many.
MaxRows == 3

CSV_HEADERS == {"type_event", "login_actor", "id_repo", "action_payload",
                "created_at"}

\* created_at as the conversion stage wrote it (a string) and what
\* pd.to_datetime(errors='coerce') makes of it: seconds, or NaT.
RawTimestamps == {"2025-01-01T00:00:00Z", "2025-01-01T00:00:10Z", "not-a-date"}

to_datetime(s) ==
    CASE s = "2025-01-01T00:00:00Z" -> <<0>>
      [] s = "2025-01-01T00:00:10Z" -> <<10>>
      [] OTHER -> Null

\* The string pandas holds for an absent action_payload.
NaN == "nan"

\* The policy that tells a bot actor: GitHub App logins end in "[bot]".
BotLogins == {"dependabot[bot]"}
IsBot(row) == "login_actor" \in DOMAIN row.v /\ row.v["login_actor"] \in BotLogins

\* row with column c set to x (the column is added when absent).
SetCell(row, c, x) ==
    [index |-> row.index,
     v |-> [k \in (DOMAIN row.v) \cup {c} |-> IF k = c THEN x ELSE row.v[k]]]

\* df['created_at'] = pd.to_datetime(df['created_at'], errors='coerce')
ParseCreatedAt(rows) ==
    [k \in 1..Len(rows) |->
        SetCell(rows[k], "created_at", to_datetime(rows[k].v["created_at"]))]

\* The order of sort_values(by=['id_repo', 'created_at']): ascending, NaT last.
Precedes(a, b) ==
    \/ a.v["id_repo"] < b.v["id_repo"]
    \/ /\ a.v["id_repo"] = b.v["id_repo"]
       /\ a.v["created_at"] # Null
       /\ \/ b.v["created_at"] = Null
          \/ a.v["created_at"][1] < b.v["created_at"][1]

\* x placed in the sorted rows after every row that does not follow it.
Insert(rows, x) ==
    LET after == {k \in 1..Len(rows) : Precedes(x, rows[k])}
        at == IF after = {} THEN Len(rows) + 1
              ELSE CHOOSE k \in after : \A j \in after : k <= j
    IN  SubSeq(rows, 1, at - 1) \o <<x>> \o SubSeq(rows, at, Len(rows))

RECURSIVE StableSort(_)
StableSort(rows) ==
    IF rows = <<>> THEN <<>>
    ELSE Insert(StableSort(SubSeq(rows, 1, Len(rows) - 1)), rows[Len(rows)])

\* df.sort_values(by=['id_repo', 'created_at']): equal keys keep their order.
sort_values(rows) == StableSort(rows)

\* A plausible bug: diff() over the whole table, not per id_repo group.
UngroupedDiff(rows, k) ==
    IF k = 1 THEN Null
    ELSE IF rows[k].v["created_at"] = Null \/ rows[k - 1].v["created_at"] = Null
         THEN Null
         ELSE <<rows[k].v["created_at"][1] - rows[k - 1].v["created_at"][1]>>

\* groupby('id_repo')['created_at'].diff().dt.total_seconds() at row k: the
\* gap to the previous row of the same id_repo, NaN when there is none or
\* when either timestamp is NaT.
GroupDiff(rows, k) ==
    LET prev == {j \in 1..(k - 1) : rows[j].v["id_repo"] = rows[k].v["id_repo"]}
    IN  IF prev = {} THEN Null
        ELSE LET j == Max(prev)
             IN  IF rows[k].v["created_at"] = Null \/ rows[j].v["created_at"] = Null
                 THEN Null
                 ELSE <<rows[k].v["created_at"][1] - rows[j].v["created_at"][1]>>

\* df['time_diff'] = ...
AddTimeDiff(rows) ==
    [k \in 1..Len(rows) |-> SetCell(rows[k], "time_diff", GroupDiff(rows, k))]

\* row.get('action_payload')
GetActionPayload(row) ==
    IF "action_payload" \in DOMAIN row.v THEN row.v["action_payload"] ELSE "None"

\* A plausible bug: every WatchEvent becomes a StarEvent.
RelabelAnyWatch(row) ==
    IF row.v["type_event"] = "WatchEvent" THEN "StarEvent" ELSE row.v["type_event"]

\* The lambda of the type_event normalization.
Relabel(row) ==
    IF row.v["type_event"] = "WatchEvent" /\ GetActionPayload(row) = "started"
    THEN "StarEvent"
    ELSE row.v["type_event"]

\* df['type_event'] = df.apply(lambda row: ..., axis=1)
NormalizeTypeEvent(rows) ==
    [k \in 1..Len(rows) |-> SetCell(rows[k], "type_event", Relabel(rows[k]))]

clean_data(d) ==
    LET r1 == IF "created_at" \in d.columns THEN ParseCreatedAt(d.rows) ELSE d.rows
        sorted == {"id_repo", "created_at"} \subseteq d.columns
        r2 == IF sorted THEN AddTimeDiff(sort_values(r1)) ELSE r1
        r3 == IF "type_event" \in d.columns THEN NormalizeTypeEvent(r2) ELSE r2
    IN  [columns |-> IF sorted THEN d.columns \cup {"time_diff"} ELSE d.columns,
         rows |-> r3]

\* The raw events the conversion stage can write: pushes of two repositories
\* at every timestamp, and events of every type, payload and actor.
RawEvents ==
    [type_event : {"PushEvent"}, login_actor : {"alice"}, id_repo : {1, 2},
     action_payload : {NaN}, created_at : RawTimestamps]
    \cup
    [type_event : {"WatchEvent", "PushEvent"},
     login_actor : {"alice"} \cup BotLogins, id_repo : {1},
     action_payload : {"started", NaN}, created_at : {"2025-01-01T00:00:00Z"}]

\* The tables read from data/github_csv: a header and up to MaxRows events,
\* indexed 0, 1, ... by read_csv.
ColumnSets == {CSV_HEADERS, CSV_HEADERS \ {"created_at"},
               CSV_HEADERS \ {"action_payload"}}

Restrict(e, cols) == [c \in cols |-> e[c]]

\* The table read_csv makes of the events es: rows indexed 0, 1, ...
TableOf(cols, es) ==
    [columns |-> cols,
     rows |-> [k \in DOMAIN es |-> [index |-> k - 1, v |-> es[k]]]]

InitClean ==
    /\ pc = "raw"
    /\ \E cols \in ColumnSets, n \in 0..MaxRows :
         \E es \in [1..n -> {Restrict(e, cols) : e \in RawEvents}] :
            df = TableOf(cols, es)
    /\ out = Unused
    /\ NoDfg /\ NoMain /\ NoAcc
    /\ features_file = Unused

\* clean_csv_files: cleaned_df = clean_data(df)
CleanData ==
    /\ pc = "raw"
    /\ out' = clean_data(df)
    /\ pc' = "cleaned"
    /\ UNCHANGED <<df, dfgVars, mainVars, features_file, accVars>>

NextClean == CleanData

SpecClean == InitClean /\ [][NextClean]_vars

\* The rows of one id_repo group, in table order.
Group(rows, g) == SelectSeq(rows, LAMBDA r : r.v["id_repo"] = g)

\* The row that carries index label i.
RowAt(rows, i) == CHOOSE r \in {rows[k] : k \in 1..Len(rows)} : r.index = i

\* C1: after clean_data on a table with id_repo and created_at, every id_repo
\* group is in non-decreasing created_at order with NaT last, the first row of
\* a group has a null time_diff, and every later row has the gap to the row
\* before it in the group, null when that row's timestamp is null.
C1_GroupsSortedWithGaps ==
    (pc = "cleaned" /\ {"id_repo", "created_at"} \subseteq df.columns) =>
        /\ Len(out.rows) = Len(df.rows)
        /\ \A g \in {r.v["id_repo"] : r \in {df.rows[k] : k \in 1..Len(df.rows)}} :
             LET grp == Group(out.rows, g)
             IN  \A k \in 1..Len(grp) :
                   LET t == grp[k].v["created_at"]
                       d == grp[k].v["time_diff"]
                   IN  /\ t = to_datetime(RowAt(df.rows, grp[k].index).v["created_at"])
                       /\ k = 1 => d = Null
                       /\ k > 1 =>
                            LET p == grp[k - 1].v["created_at"]
                            IN  /\ p = Null => (t = Null /\ d = Null)
                                /\ (p # Null /\ t # Null) =>
                                     (p[1] <= t[1] /\ d = <<t[1] - p[1]>>)

\* C1's case: a table that arrives out of order, whose repository 1 ends up
\* with a first row, a row 10 seconds later and an unparsable row last.
C1_Witness ==
    /\ pc = "cleaned"
    /\ {"id_repo", "created_at"} \subseteq df.columns
    /\ Len(out.rows) = 3
    /\ out.rows[1].index # 0
    /\ \A k \in 1..3 : out.rows[k].v["id_repo"] = 1
    /\ out.rows[2].v["time_diff"] = <<10>>
    /\ out.rows[3].v["created_at"] = Null

\* C2: the relabeling turns exactly the WatchEvent rows whose action_payload
\* is "started" into StarEvent and keeps every other type_event; no output row
\* is a started WatchEvent; relabeling the output again changes nothing.
C2_RelabelExactAndIdempotent ==
    (pc = "cleaned" /\ "type_event" \in df.columns) =>
        /\ \A k \in 1..Len(df.rows) :
             LET r == df.rows[k]
                 o == RowAt(out.rows, r.index)
                 started_watch ==
                     /\ r.v["type_event"] = "WatchEvent"
                     /\ "action_payload" \in df.columns
                     /\ r.v["action_payload"] = "started"
             IN  o.v["type_event"] =
                     IF started_watch THEN "StarEvent" ELSE r.v["type_event"]
        /\ \A k \in 1..Len(out.rows) :
             ~ /\ out.rows[k].v["type_event"] = "WatchEvent"
               /\ "action_payload" \in out.columns
               /\ out.rows[k].v["action_payload"] = "started"
        /\ NormalizeTypeEvent(out.rows) = out.rows

\* C2's case: a table with a started WatchEvent (relabeled), a WatchEvent
\* with no action (kept) and a PushEvent.
C2_Witness ==
    /\ pc = "cleaned"
    /\ "action_payload" \in df.columns
    /\ \E i, j, k \in 1..Len(df.rows) :
         /\ df.rows[i].v["type_event"] = "WatchEvent"
         /\ df.rows[i].v["action_payload"] = "started"
         /\ RowAt(out.rows, df.rows[i].index).v["type_event"] = "StarEvent"
         /\ df.rows[j].v["type_event"] = "WatchEvent"
         /\ df.rows[j].v["action_payload"] = NaN
         /\ RowAt(out.rows, df.rows[j].index).v["type_event"] = "WatchEvent"
         /\ df.rows[k].v["type_event"] = "PushEvent"

\* C3: no row of the normalized table has a bot actor.
C3_NoBotInOutput ==
    pc = "cleaned" => \A k \in 1..Len(out.rows) : ~IsBot(out.rows[k])

(***************************************************************************)
(* process_mining.extract_dfg_metrics                                      *)
(***************************************************************************)

\* Events of one case: at most this many.
MaxLen == 4

Activities == {"StarEvent", "PushEvent", "ForkEvent"}

\* dfg_algorithm.apply(log) on the log of one case, in timestamp order: each
\* pair of activities that occur one right after the other, with the number
\* of times it does.
DirectlyFollows(l) ==
    LET at(i) == <<l[i], l[i + 1]>>
    IN  [p \in {at(i) : i \in 1..(Len(l) - 1)} |->
            Cardinality({i \in 1..(Len(l) - 1) : at(i) = p})]

\* num_archi / (num_nodi * (num_nodi - 1)) if num_nodi > 1 else 0, kept as
\* the fraction num / den.
Density(num_archi, num_nodi) ==
    IF num_nodi > 1
    THEN [num |-> num_archi, den |-> num_nodi * (num_nodi - 1)]
    ELSE [num |-> 0, den |-> 1]

\* A plausible bug: num_archi as the number of transitions of the case, the
\* sum of the frequencies of the graph, not the number of its edges.
extract_dfg_metrics_by_frequency(l) ==
    LET dfg == DirectlyFollows(l)
        num_nodi == Cardinality({p[1] : p \in DOMAIN dfg} \cup
                                {p[2] : p \in DOMAIN dfg})
        num_archi == IF Len(l) > 1 THEN Len(l) - 1 ELSE 0
    IN  [num_nodi |-> num_nodi,
         num_archi |-> num_archi,
         densita_dfg |-> Density(num_archi, num_nodi)]

extract_dfg_metrics(l) ==
    LET dfg == DirectlyFollows(l)
        num_nodi == Cardinality({p[1] : p \in DOMAIN dfg} \cup
                                {p[2] : p \in DOMAIN dfg})
        num_archi == Cardinality(DOMAIN dfg)
    IN  [num_nodi |-> num_nodi,
         num_archi |-> num_archi,
         densita_dfg |-> Density(num_archi, num_nodi)]

InitDfg ==
    /\ pc = "case"
    /\ log \in SeqsUpTo(Activities, MaxLen)
    /\ metrics = Unused
    /\ NoClean /\ NoMain /\ NoAcc
    /\ features_file = Unused

\* generate_process_models_and_features: dfg_metrics = extract_dfg_metrics(log)
ExtractDfgMetrics ==
    /\ pc = "case"
    /\ metrics' = extract_dfg_metrics(log)
    /\ pc' = "measured"
    /\ UNCHANGED <<log, cleanVars, mainVars, features_file, accVars>>

NextDfg == ExtractDfgMetrics

SpecDfg == InitDfg /\ [][NextDfg]_vars

\* C4: the density returned is between 0 and 1 when the graph has more than
\* one node, and is 0 when it has at most one.
C4_DensityInUnitInterval ==
    pc = "measured" =>
        LET d == metrics.densita_dfg
        IN  /\ metrics.num_nodi > 1 => (0 <= d.num /\ d.num <= d.den)
            /\ metrics.num_nodi <= 1 => d.num = 0

\* C11: num_archi is the number of distinct ordered pairs of activities that
\* are adjacent somewhere in the case, however often each occurs, and num_nodi
\* is the number of distinct activities that are the source or the target of
\* such a pair; a case of one event has no node and no edge, and the case
\* StarEvent, PushEvent, StarEvent has 2 nodes, 2 edges and density 1.
C11_EdgesAndNodesAreDistinct ==
    pc = "measured" =>
        LET adjacent(a, b) == \E i \in 1..(Len(log) - 1) : log[i] = a /\ log[i + 1] = b
            pairs == {p \in Activities \X Activities : adjacent(p[1], p[2])}
            nodes == {a \in Activities :
                        \E b \in Activities : adjacent(a, b) \/ adjacent(b, a)}
        IN  /\ metrics.num_archi = Cardinality(pairs)
            /\ metrics.num_nodi = Cardinality(nodes)
            /\ Len(log) = 1 => metrics.num_nodi = 0 /\ metrics.num_archi = 0
            /\ log = <<"StarEvent", "PushEvent", "StarEvent">> =>
                   /\ metrics.num_nodi = 2
                   /\ metrics.num_archi = 2
                   /\ metrics.densita_dfg.num = metrics.densita_dfg.den

\* C11's case: a case of three transitions in which one pair occurs twice has
\* been measured, and the graph has two edges.
C11_Witness ==
    /\ pc = "measured"
    /\ log = <<"StarEvent", "PushEvent", "StarEvent", "PushEvent">>
    /\ metrics.num_archi = 2
    /\ metrics.num_nodi = 2

(***************************************************************************)
(* process_mining.load_non_trending_repositories                           *)
(***************************************************************************)

\* Event rows of a corpus and names of a viral list: at most this many.
MaxCorpus == 4
MaxViral == 2

\* Repository names, in the ascending order Python compares the strings.
RepoOrder == <<"ada/app", "bob/box", "cy/core", "dan/dot", "eve/env">>
RepoNames == {RepoOrder[i] : i \in 1..Len(RepoOrder)}
NameRank(n) == CHOOSE i \in 1..Len(RepoOrder) : RepoOrder[i] = n

Range(s) == {s[i] : i \in 1..Len(s)}

\* The sequences over S without a repeated element, of length lo..hi.
DistinctSeqs(S, lo, hi) ==
    {s \in SeqsUpTo(S, hi) :
        Len(s) >= lo /\ \A i, j \in 1..Len(s) : i # j => s[i] # s[j]}

\* The elements of s in order of first occurrence.
RECURSIVE Unique(_)
Unique(s) ==
    IF s = <<>> THEN <<>>
    ELSE LET front == Unique(SubSeq(s, 1, Len(s) - 1))
         IN  IF s[Len(s)] \in Range(front) THEN front
             ELSE Append(front, s[Len(s)])

\* A plausible bug: groupby(..., sort=False), groups in first-seen order.
GroupKeysUnsorted(d) == Unique([k \in 1..Len(d) |-> d[k].name_repo])

\* data.groupby('name_repo').groups.keys(): groupby sorts the group keys, so
\* these are the distinct names in ascending order.
GroupKeys(d) ==
    SelectSeq(RepoOrder, LAMBDA n : \E k \in 1..Len(d) : d[k].name_repo = n)

\* A plausible bug: the loop stops one repository late.
BreakLate(filtered_repos, max_repos) == Len(filtered_repos) > max_repos

\* if len(filtered_repos) >= max_repos: break
Break(filtered_repos, max_repos) == Len(filtered_repos) >= max_repos

\* The for loop from key i on, with filtered_repos as collected so far.
RECURSIVE FilterLoop(_, _, _, _)
FilterLoop(keys, i, filtered_repos, trending_repos) ==
    IF i > Len(keys) THEN filtered_repos
    ELSE LET next == IF keys[i] \notin Range(trending_repos)
                     THEN Append(filtered_repos, keys[i])
                     ELSE filtered_repos
         IN  IF Break(next, Len(trending_repos)) THEN next
             ELSE FilterLoop(keys, i + 1, next, trending_repos)

load_non_trending_repositories(d, trending_repos) ==
    FilterLoop(GroupKeys(d), 1, <<>>, trending_repos)

\* The corpora: every row order of up to n events of the given repositories.
Corpora(names, types, n) == SeqsUpTo([name_repo : names, type_event : types], n)

InitSelect ==
    /\ pc = "loaded"
    /\ data \in Corpora(RepoNames, {"PushEvent"}, MaxCorpus)
    /\ repo_list_virale \in DistinctSeqs(RepoNames, 1, MaxViral)
    /\ repo_list_non_virale = <<>>
    /\ cleaned_csv = Unused /\ trending_file = Unused /\ next_repo = Unused
    /\ df_features = Unused /\ saved_dfg = Unused /\ render_failed = Unused
    /\ exit_status = Unused
    /\ NoClean /\ NoDfg /\ NoAcc
    /\ features_file = Unused

\* main: repo_list_non_virale = load_non_trending_repositories(data, ...)
LoadNonTrending ==
    /\ pc = "loaded"
    /\ repo_list_non_virale' = load_non_trending_repositories(data, repo_list_virale)
    /\ pc' = "selected"
    /\ UNCHANGED <<data, repo_list_virale, cleaned_csv, trending_file, next_repo,
                   df_features, saved_dfg, render_failed, exit_status,
                   cleanVars, dfgVars, features_file, accVars>>

NextSelect == LoadNonTrending

SpecSelect == InitSelect /\ [][NextSelect]_vars

\* The repositories of the corpus that are not viral.
Eligible == {data[k].name_repo : k \in 1..Len(data)} \ Range(repo_list_virale)

\* C5: the non-viral list holds only non-viral repositories of the corpus,
\* each once; it is as long as the viral list when that many are eligible and
\* shorter otherwise.
C5_BalancedSelection ==
    pc = "selected" =>
        LET r == repo_list_non_virale
        IN  /\ Range(r) \subseteq Eligible
            /\ \A i, j \in 1..Len(r) : i # j => r[i] # r[j]
            /\ Cardinality(Eligible) >= Len(repo_list_virale)
                   => Len(r) = Len(repo_list_virale)
            /\ Cardinality(Eligible) < Len(repo_list_virale)
                   => Len(r) < Len(repo_list_virale)

\* C5's case: two viral repositories, one of them in the corpus, and more
\* eligible repositories than that: two are selected.
C5_Witness ==
    /\ pc = "selected"
    /\ Len(repo_list_virale) = 2
    /\ \E k \in 1..Len(data) : data[k].name_repo \in Range(repo_list_virale)
    /\ Cardinality(Eligible) = 3
    /\ Len(repo_list_non_virale) = 2

\* C6 as stated: the non-viral list is the first |viral| eligible repositories
\* in the order their names first appear in the corpus rows.
C6_FirstEncounteredOrder ==
    pc = "selected" =>
        LET seen == SelectSeq(Unique([k \in 1..Len(data) |-> data[k].name_repo]),
                              LAMBDA n : n \notin Range(repo_list_virale))
            take == IF Len(seen) < Len(repo_list_virale) THEN Len(seen)
                    ELSE Len(repo_list_virale)
        IN  repo_list_non_virale = SubSeq(seen, 1, take)

\* C6 amended: the non-viral list is the first |viral| eligible repositories
\* in ascending order of name: its i-th entry is the eligible name with
\* exactly i-1 eligible names below it, whatever the order of the rows.
C6_AscendingNameOrder ==
    pc = "selected" =>
        LET r == repo_list_non_virale
        IN  /\ Len(r) = IF Cardinality(Eligible) < Len(repo_list_virale)
                        THEN Cardinality(Eligible) ELSE Len(repo_list_virale)
            /\ \A i \in 1..Len(r) :
                 /\ r[i] \in Eligible
                 /\ Cardinality({n \in Eligible : NameRank(n) < NameRank(r[i])}) = i - 1

\* C6's case: the corpus meets the eligible repositories in descending name
\* order, and only the lowest name is selected.
C6_Witness ==
    /\ pc = "selected"
    /\ Len(data) >= 2
    /\ data[1].name_repo \in Eligible
    /\ data[2].name_repo \in Eligible
    /\ NameRank(data[2].name_repo) < NameRank(data[1].name_repo)
    /\ repo_list_non_virale = <<data[2].name_repo>>

(***************************************************************************)
(* process_mining.main: one run of the process mining stage                *)
(***************************************************************************)

\* Event rows of the cleaned CSV file and cells of trending.csv's repository
\* column: at most this many.
MaxEvents == 2
MaxTrending == 2

\* The repositories of the run's inputs.
MainNames == {RepoOrder[1], RepoOrder[2], RepoOrder[3]}

\* date.date().strftime('%Y-%m-%d') of the run's clock.
Today == "2025-01-01"

\* The files of data/github_cleaned_csv: none or one, readable or not.
CleanedDirs ==
    {<<>>} \cup
    {<<[readable |-> FALSE, rows |-> <<>>]>>} \cup
    {<<[readable |-> TRUE, rows |-> c]>> :
        c \in Corpora(MainNames, {"StarEvent", "PushEvent"}, MaxEvents)}

\* trending.csv: missing, without a repository column, or with one whose
\* cells are names or NaN.
TrendingFiles ==
    {[state |-> "missing", repository |-> <<>>],
     [state |-> "no_column", repository |-> <<>>]} \cup
    {[state |-> "ok", repository |-> col] :
        col \in SeqsUpTo(MainNames \cup {NaN}, MaxTrending)}

\* load_cleaned_csv: the tables read without an exception, then pd.concat.
ReadableTables(dir) == SelectSeq(dir, LAMBDA f : f.readable)

RECURSIVE ConcatTables(_)
ConcatTables(tables) ==
    IF tables = <<>> THEN <<>>
    ELSE tables[1].rows \o ConcatTables(SubSeq(tables, 2, Len(tables)))

\* trending_df['repository'].dropna().unique().tolist()
TrendingRepos(file) == Unique(SelectSeq(file.repository, LAMBDA n : n # NaN))

\* A plausible bug: the empty list is returned instead of ending the run.
TrendingLoadFailsOnIOOnly(file) == file.state # "ok"

\* load_trending_repositories ends in exit(1): read_csv raises (no file),
\* trending_df['repository'] raises KeyError, or the list is empty (the print
\* of the undefined e raises NameError, caught by the same except).
TrendingLoadFails(file) == file.state # "ok" \/ TrendingRepos(file) = <<>>

\* for repo_name in repo_list_virale + repo_list_non_virale
SelectedRepos == repo_list_virale \o repo_list_non_virale

\* dati[dati['name_repo'] == repo_name]
DatiRepo(d, repo_name) == SelectSeq(d, LAMBDA row : row.name_repo = repo_name)

\* The case's activities ('concept:name'), in the order of the corpus rows.
CaseLog(dati_repo) == [k \in 1..Len(dati_repo) |-> dati_repo[k].type_event]

\* value_counts(normalize=True).get('StarEvent', 0), as the fraction num/den.
PercentualeStarEvent(l) ==
    [num |-> Cardinality({k \in 1..Len(l) : l[k] = "StarEvent"}), den |-> Len(l)]

\* repo_features: the case id, the viral flag, the DFG metrics and the
\* frequency feature (tempo_medio_eventi needs timestamps, which this corpus
\* does not carry).
RepoFeatures(repo_name, virale_list, l) ==
    LET m == extract_dfg_metrics(l)
    IN  [repo_name |-> <<repo_name, Today>>,
         virale |-> repo_name \in Range(virale_list),
         num_nodi |-> m.num_nodi,
         num_archi |-> m.num_archi,
         densita_dfg |-> m.densita_dfg,
         percentuale_StarEvent |-> PercentualeStarEvent(l)]

\* A plausible bug: a failed rendering discards the repository's features.
OnRenderErrorDropRow(features) == SubSeq(features, 1, Len(features) - 1)

\* except Exception as e: print(...): the rows collected stay as they are.
OnRenderError(features) == features

\* DataFrame.to_csv(index=False): a header line and one line per row, the
\* flag written as text; a frame with no rows and no columns gives a file
\* that holds only a line break.
FormatRow(row) == [row EXCEPT !.virale = IF row.virale THEN "True" ELSE "False"]
to_csv(table) ==
    [exists |-> TRUE,
     header |-> table # <<>>,
     lines |-> [k \in 1..Len(table) |-> FormatRow(table[k])]]

\* pd.read_csv: the rows of the file; a file without a header line raises
\* EmptyDataError.
ParseRow(line) == [line EXCEPT !.virale = (line.virale = "True")]
ReadCsvFails(file) == ~file.header
read_csv(file) == [k \in 1..Len(file.lines) |-> ParseRow(file.lines[k])]

\* A plausible bug: the new rows replace the table instead of extending it.
ConcatOverwrite(df_existing, features) == features

\* pd.concat([df_existing, df_features], ignore_index=True)
Concat(df_existing, features) == df_existing \o features

\* No file at features_path.
Absent == [exists |-> FALSE, header |-> FALSE, lines |-> <<>>]

\* The rows the feature table holds.
PersistedRows(file) == IF file.exists THEN read_csv(file) ELSE <<>>

\* A row an earlier day's run left in the feature table.
EarlierRow ==
    [repo_name |-> <<RepoOrder[1], "2024-12-31">>, virale |-> TRUE, num_nodi |-> 0,
     num_archi |-> 0, densita_dfg |-> [num |-> 0, den |-> 1],
     percentuale_StarEvent |-> [num |-> 1, den |-> 1]]

InitMain ==
    /\ pc = "load_cleaned_csv"
    /\ cleaned_csv \in CleanedDirs
    /\ trending_file \in TrendingFiles
    /\ features_file \in {Absent, to_csv(<<EarlierRow>>), to_csv(<<>>)}
    /\ data = <<>>
    /\ repo_list_virale = <<>>
    /\ repo_list_non_virale = <<>>
    /\ next_repo = 1
    /\ df_features = <<>>
    /\ saved_dfg = {}
    /\ render_failed = {}
    /\ exit_status = "running"
    /\ NoClean /\ NoDfg /\ NoAcc

\* data = load_cleaned_csv(), some table was read
LoadCleanedCsv ==
    /\ pc = "load_cleaned_csv"
    /\ ReadableTables(cleaned_csv) # <<>>
    /\ data' = ConcatTables(ReadableTables(cleaned_csv))
    /\ pc' = "load_trending"
    /\ UNCHANGED <<cleaned_csv, trending_file, repo_list_virale,
                   repo_list_non_virale, next_repo, df_features, saved_dfg,
                   render_failed, features_file, exit_status,
                   cleanVars, dfgVars, accVars>>

\* load_cleaned_csv: if not data: exit()
NoCleanedCsv ==
    /\ pc = "load_cleaned_csv"
    /\ ReadableTables(cleaned_csv) = <<>>
    /\ pc' = "exited"
    /\ exit_status' = "0"
    /\ UNCHANGED <<cleaned_csv, trending_file, data, repo_list_virale,
                   repo_list_non_virale, next_repo, df_features, saved_dfg,
                   render_failed, features_file, cleanVars, dfgVars, accVars>>

\* repo_list_virale = load_trending_repositories()
LoadTrending ==
    /\ pc = "load_trending"
    /\ ~TrendingLoadFails(trending_file)
    /\ repo_list_virale' = TrendingRepos(trending_file)
    /\ pc' = "load_non_trending"
    /\ UNCHANGED <<cleaned_csv, trending_file, data, repo_list_non_virale,
                   next_repo, df_features, saved_dfg, render_failed,
                   features_file, exit_status, cleanVars, dfgVars, accVars>>

\* load_trending_repositories: exit(1)
TrendingAbort ==
    /\ pc = "load_trending"
    /\ TrendingLoadFails(trending_file)
    /\ pc' = "aborted"
    /\ exit_status' = "1"
    /\ UNCHANGED <<cleaned_csv, trending_file, data, repo_list_virale,
                   repo_list_non_virale, next_repo, df_features, saved_dfg,
                   render_failed, features_file, cleanVars, dfgVars, accVars>>

\* repo_list_non_virale = load_non_trending_repositories(data, repo_list_virale)
SelectNonTrending ==
    /\ pc = "load_non_trending"
    /\ repo_list_non_virale' = load_non_trending_repositories(data, repo_list_virale)
    /\ pc' = "generate"
    /\ UNCHANGED <<cleaned_csv, trending_file, data, repo_list_virale, next_repo,
                   df_features, saved_dfg, render_failed, features_file,
                   exit_status, cleanVars, dfgVars, accVars>>

\* The loop body for a repository without events: print and continue.
SkipEmptyCase ==
    /\ pc = "generate"
    /\ next_repo <= Len(SelectedRepos)
    /\ DatiRepo(data, SelectedRepos[next_repo]) = <<>>
    /\ next_repo' = next_repo + 1
    /\ UNCHANGED <<pc, cleaned_csv, trending_file, data, repo_list_virale,
                   repo_list_non_virale, df_features, saved_dfg, render_failed,
                   features_file, exit_status, cleanVars, dfgVars, accVars>>

\* The loop body for a repository with events whose DFG image is saved.
CaseRendered ==
    /\ pc = "generate"
    /\ next_repo <= Len(SelectedRepos)
    /\ LET repo_name == SelectedRepos[next_repo]
           dati_repo == DatiRepo(data, repo_name)
       IN  /\ dati_repo # <<>>
           /\ df_features' = Append(df_features,
                   RepoFeatures(repo_name, repo_list_virale, CaseLog(dati_repo)))
           /\ saved_dfg' = saved_dfg \cup {repo_name}
    /\ next_repo' = next_repo + 1
    /\ UNCHANGED <<pc, cleaned_csv, trending_file, data, repo_list_virale,
                   repo_list_non_virale, render_failed, features_file,
                   exit_status, cleanVars, dfgVars, accVars>>

\* The loop body for a repository with events whose rendering raises.
CaseRenderFailed ==
    /\ pc = "generate"
    /\ next_repo <= Len(SelectedRepos)
    /\ LET repo_name == SelectedRepos[next_repo]
           dati_repo == DatiRepo(data, repo_name)
       IN  /\ dati_repo # <<>>
           /\ df_features' = OnRenderError(Append(df_features,
                   RepoFeatures(repo_name, repo_list_virale, CaseLog(dati_repo))))
           /\ render_failed' = render_failed \cup {repo_name}
    /\ next_repo' = next_repo + 1
    /\ UNCHANGED <<pc, cleaned_csv, trending_file, data, repo_list_virale,
                   repo_list_non_virale, saved_dfg, features_file,
                   exit_status, cleanVars, dfgVars, accVars>>

\* return pd.DataFrame(df_features)
ReturnFeatures ==
    /\ pc = "generate"
    /\ next_repo > Len(SelectedRepos)
    /\ pc' = "accumulate"
    /\ UNCHANGED <<cleaned_csv, trending_file, data, repo_list_virale,
                   repo_list_non_virale, next_repo, df_features, saved_dfg,
                   render_failed, features_file, exit_status,
                   cleanVars, dfgVars, accVars>>

\* main: load the feature table if there is one, append, save.
Accumulate ==
    /\ pc = "accumulate"
    /\ ~(features_file.exists /\ ReadCsvFails(features_file))
    /\ features_file' =
           IF features_file.exists
           THEN to_csv(Concat(read_csv(features_file), df_features))
           ELSE to_csv(df_features)
    /\ pc' = "done"
    /\ exit_status' = "0"
    /\ UNCHANGED <<cleaned_csv, trending_file, data, repo_list_virale,
                   repo_list_non_virale, next_repo, df_features, saved_dfg,
                   render_failed, cleanVars, dfgVars, accVars>>

\* main: pd.read_csv(features_path) raises and nothing catches it.
AccumulateCrash ==
    /\ pc = "accumulate"
    /\ features_file.exists /\ ReadCsvFails(features_file)
    /\ pc' = "crashed"
    /\ exit_status' = "1"
    /\ UNCHANGED <<cleaned_csv, trending_file, data, repo_list_virale,
                   repo_list_non_virale, next_repo, df_features, saved_dfg,
                   render_failed, features_file, cleanVars, dfgVars, accVars>>

NextMain ==
    \/ LoadCleanedCsv \/ NoCleanedCsv \/ LoadTrending \/ TrendingAbort
    \/ SelectNonTrending \/ SkipEmptyCase \/ CaseRendered \/ CaseRenderFailed
    \/ ReturnFeatures \/ Accumulate \/ AccumulateCrash

SpecMain == InitMain /\ [][NextMain]_vars

\* The trending list is missing or unreadable, lacks the repository column,
\* or holds no non-null name.
TrendingUnusable ==
    \/ trending_file.state = "missing"
    \/ trending_file.state = "no_column"
    \/ \A k \in 1..Len(trending_file.repository) : trending_file.repository[k] = NaN

ProcessedWithEvents ==
    SelectSeq(SubSeq(repo_list_virale \o repo_list_non_virale, 1, next_repo - 1),
              LAMBDA n : \E k \in 1..Len(data) : data[k].name_repo = n)

\* C10: the loop goes through the viral list and then the non-viral list;
\* the feature rows are, in that order, one for each repository gone past
\* that has events and none for the others, whether or not a rendering
\* failed; and the loop ends only after the last repository.
C10_OneRowPerNonEmptyCase ==
    pc \in {"generate", "accumulate", "done", "crashed"} =>
        /\ Len(df_features) = Len(ProcessedWithEvents)
        /\ \A k \in 1..Len(df_features) :
             /\ df_features[k].repo_name = <<ProcessedWithEvents[k], Today>>
             /\ df_features[k].virale =
                    (ProcessedWithEvents[k] \in Range(repo_list_virale))
        /\ saved_dfg \cup render_failed = Range(ProcessedWithEvents)
        /\ pc # "generate" =>
             next_repo = Len(repo_list_virale) + Len(repo_list_non_virale) + 1

\* C10's case: a viral repository without events is skipped, the rendering
\* of the next repository fails, and both that repository and the non-viral
\* one after it have their feature row.
C10_Witness ==
    /\ pc = "accumulate"
    /\ Len(repo_list_virale) = 2
    /\ Len(repo_list_non_virale) = 1
    /\ DatiRepo(data, repo_list_virale[1]) = <<>>
    /\ render_failed = {repo_list_virale[2]}
    /\ saved_dfg = {repo_list_non_virale[1]}
    /\ Len(df_features) = 2
    /\ df_features[1].virale /\ ~df_features[2].virale

(***************************************************************************)
(* process_mining.main: several runs on the one feature table              *)
(***************************************************************************)

\* Pipeline runs, and feature rows one run produces: at most this many.
MaxRuns == 2
MaxNew == 2

Runs == 1..MaxRuns

\* Feature rows of two repositories, as generate_process_models_and_features
\* computes them on the run's day.
SampleRows ==
    {RepoFeatures(RepoOrder[1], <<RepoOrder[1]>>, <<"StarEvent", "PushEvent">>),
     RepoFeatures(RepoOrder[2], <<RepoOrder[1]>>, <<"PushEvent">>)}

\* What one run can produce: one row per repository, possibly none.
RunFeatures == DistinctSeqs(SampleRows, 0, MaxNew)

\* A run is between its start and its end.
Active(r) == run_pc[r] \in {"exists", "read", "write"}

InitAcc ==
    /\ pc = "runs"
    /\ features_file = Absent
    /\ run_pc = [r \in Runs |-> "idle"]
    /\ run_features = [r \in Runs |-> <<>>]
    /\ run_existing = [r \in Runs |-> <<>>]
    /\ started = <<>>
    /\ overlap = FALSE
    /\ NoClean /\ NoDfg /\ NoMain

\* main up to df_features = generate_process_models_and_features(...)
Begin(r) ==
    /\ run_pc[r] = "idle"
    /\ \E rows \in RunFeatures : run_features' = [run_features EXCEPT ![r] = rows]
    /\ run_pc' = [run_pc EXCEPT ![r] = "exists"]
    /\ started' = Append(started, r)
    /\ overlap' = (overlap \/ \E q \in Runs \ {r} : Active(q))
    /\ UNCHANGED <<pc, features_file, run_existing, cleanVars, dfgVars, mainVars>>

\* The caller starts a run only when no other run is under way.
BeginSerialized(r) == (\A q \in Runs : ~Active(q)) /\ Begin(r)

\* if os.path.exists(features_path): ... else: df_final = df_features
CheckExists(r) ==
    /\ run_pc[r] = "exists"
    /\ run_pc' = [run_pc EXCEPT ![r] = IF features_file.exists THEN "read" ELSE "write"]
    /\ UNCHANGED <<pc, features_file, run_features, run_existing, started,
                   overlap, cleanVars, dfgVars, mainVars>>

\* df_existing = pd.read_csv(features_path)
ReadExisting(r) ==
    /\ run_pc[r] = "read"
    /\ ~ReadCsvFails(features_file)
    /\ run_existing' = [run_existing EXCEPT ![r] = read_csv(features_file)]
    /\ run_pc' = [run_pc EXCEPT ![r] = "write"]
    /\ UNCHANGED <<pc, features_file, run_features, started, overlap,
                   cleanVars, dfgVars, mainVars>>

\* pd.read_csv(features_path) raises EmptyDataError: the run ends there.
ReadCrash(r) ==
    /\ run_pc[r] = "read"
    /\ ReadCsvFails(features_file)
    /\ run_pc' = [run_pc EXCEPT ![r] = "crashed"]
    /\ UNCHANGED <<pc, features_file, run_features, run_existing, started,
                   overlap, cleanVars, dfgVars, mainVars>>

\* df_final.to_csv(features_path, index=False), df_final being the concat of
\* what was read (nothing when there was no file) and df_features.
WriteFinal(r) ==
    /\ run_pc[r] = "write"
    /\ features_file' = to_csv(Concat(run_existing[r], run_features[r]))
    /\ run_pc' = [run_pc EXCEPT ![r] = "done"]
    /\ UNCHANGED <<pc, run_features, run_existing, started, overlap,
                   cleanVars, dfgVars, mainVars>>

NextSerial ==
    \E r \in Runs :
        \/ BeginSerialized(r) \/ CheckExists(r) \/ ReadExisting(r)
        \/ ReadCrash(r) \/ WriteFinal(r)

NextConcurrent ==
    \E r \in Runs :
        \/ Begin(r) \/ CheckExists(r) \/ ReadExisting(r)
        \/ ReadCrash(r) \/ WriteFinal(r)

\* Runs that the caller serializes, and runs that start at any time.
SpecSerial == InitAcc /\ [][NextSerial]_vars
SpecConcurrent == InitAcc /\ [][NextConcurrent]_vars

\* The rows the runs produced, run after run in the given order.
RECURSIVE ProducedBy(_)
ProducedBy(order) ==
    IF order = <<>> THEN <<>>
    ELSE ProducedBy(SubSeq(order, 1, Len(order) - 1)) \o run_features[order[Len(order)]]

\* C7: whenever no serialized run is under way, the feature table holds the
\* rows of all runs so far, run after run, duplicates included.
C7_TableIsConcatenationOfRuns ==
    (\A r \in Runs : ~Active(r)) => PersistedRows(features_file) = ProducedBy(started)

\* C9: when all runs have ended with their write and none began while
\* another was under way, the feature table holds the rows of all of them,
\* run after run.
C9_SerializedRunsKeepAllRows ==
    ((\A r \in Runs : run_pc[r] = "done") /\ ~overlap) =>
        PersistedRows(features_file) = ProducedBy(started)

\* C9's case, the lost update: two runs that both produced rows overlapped,
\* both have written, and the table holds the rows of the second alone.
C9_Witness ==
    /\ \A r \in Runs : run_pc[r] = "done"
    /\ overlap
    /\ Len(started) >= 2
    /\ run_features[started[1]] # <<>>
    /\ run_features[started[2]] # <<>>
    /\ Range(run_features[started[1]]) \cap Range(run_features[started[2]]) = {}
    /\ PersistedRows(features_file) = run_features[started[2]]

=============================================================================
